---- MODULE Spec2Model ----
(***************************************************************************)
(* ShaderStack: one WebGL canvas that renders a sequence of full-screen    *)
(* shader layers, driven by requestAnimationFrame.                         *)
(*                                                                         *)
(* Units.  Pixel ratios (window.devicePixelRatio, capDevicePixelRatio,     *)
(* renderer pixel ratio, iResolution.z) are counted in HALVES, so that     *)
(* 2 is the ratio 1, 3 is 1.5, 4 is 2 and 6 is 3; 0 is a missing/zero      *)
(* devicePixelRatio.  Times are milliseconds; the value t handed to the    *)
(* layers is (now - startTime) / 1000 seconds and is carried as the        *)
(* number of thousandths of a second.                                      *)
(***************************************************************************)
EXTENDS Integers, Sequences, FiniteSets, TLC

VARIABLES
    status,               \* "rendered" (effects not run yet), "mounted", "disposed",
                          \* "failed" (the mount effect threw)
    paused,               \* prop paused, current value
    layers,               \* prop layers, current value (sequence of descriptor ids)
    animateWhenOffscreen, \* prop animateWhenOffscreen
    capDevicePixelRatio,  \* prop capDevicePixelRatio (halves)
    isVisible,            \* React state isVisible, current value
    closure,              \* values captured by the mount effect's closures
    frameRef,             \* frameRef.current; 0 is null
    rafQueue,             \* host: pending animation frame requests, oldest first
    nextHandle,           \* host: next requestAnimationFrame handle
    now,                  \* host: performance.now()
    startTimeRef,         \* startTimeRef.current
    host,                 \* host: devicePixelRatio, container clientWidth/clientHeight
    renderer,             \* the THREE.WebGLRenderer (0-size record before mount)
    surface,              \* what the canvas shows: layers composited since the last clear
                          \* or the last change of the canvas size
    materialsRef,         \* materialsRef.current
    geometryDisposed,     \* geometry.dispose() was called
    roConnected,          \* the ResizeObserver is observing
    ioConnected,          \* the IntersectionObserver is observing
    frameLog,             \* calls made by the most recent frame callback, in order
    pauseResume,          \* paused went true -> false and no frame callback ran since
    visResume,            \* visibility went false -> true and no frame callback ran since
    resizeLog,            \* the most recent resize(): the host values it read, its renderer
                          \* calls, and whether the host values were those of the one before
    disposeLog,           \* calls made by the most recent run of the cleanup, in order
    thrown,               \* the exception that left an effect or callback uncaught, or "none"
    diagnostics,          \* number of console diagnostics logged
    alwaysEligible,       \* every render so far had paused = FALSE and the container visible
    effectPending,        \* a re-render changed paused and the paused effect has not run yet
    roReported,           \* host: container size the ResizeObserver last reported, <<w, h>>;
                          \* NotReported while it has reported none
    cooldown,             \* the CooldownStack component (CooldownSpec; not rendered in Spec)
    mirror                \* a component using useMirroredImage (MirrorSpec; idle in Spec)

vars == <<status, paused, layers, animateWhenOffscreen, capDevicePixelRatio,
          isVisible, closure, frameRef, rafQueue, nextHandle, now, startTimeRef,
          host, renderer, surface, materialsRef, geometryDisposed, roConnected,
          ioConnected, frameLog, pauseResume, visResume, resizeLog, disposeLog,
          thrown, diagnostics, alwaysEligible, effectPending, roReported,
          cooldown, mirror>>

----------------------------------------------------------------------------
(* Bounds *)

MaxLayers == 2      \* longest layer sequence
MaxHandle == 3      \* largest animation frame handle the host hands out
MaxNow == 1         \* largest clock value (ms)
MaxShaped == 2      \* number of steps into which the range 0..1 of shaped is cut

(* Inputs *)

\* what a ResizeObserver has reported before its first notification: a value
\* that is the size of no container
NotReported == <<-1, -1>>

LayerIds == {"A", "B"}

\* the uniform names the stack itself provides
ReservedNames == {"iTime", "iResolution"}

\* The layer descriptors used as inputs.  A has no onBeforeFrame callback and
\* leaves blending undefined; B has a callback and asks for additive blending.
\* C names both reserved uniforms among its own: iTime: { value: 7 } and
\* iResolution: { value: [9] }, an array (which three.js takes for a vector
\* uniform) and not a Vector3.  The fields iTime, iResolution and
\* iResolutionIsVector are read only when the name is among the uniforms.
Layer(id) ==
    IF id = "A"
    THEN [fragmentShader |-> "fragA", uniforms |-> {"uA"},
          onBeforeFrame |-> FALSE, blending |-> "undefined",
          iTime |-> 0, iResolution |-> <<>>, iResolutionIsVector |-> FALSE]
    ELSE IF id = "B"
    THEN [fragmentShader |-> "fragB", uniforms |-> {"uB"},
          onBeforeFrame |-> TRUE, blending |-> "AdditiveBlending",
          iTime |-> 0, iResolution |-> <<>>, iResolutionIsVector |-> FALSE]
    ELSE [fragmentShader |-> "fragC", uniforms |-> {"iTime", "iResolution", "uC"},
          onBeforeFrame |-> FALSE, blending |-> "undefined",
          iTime |-> 7, iResolution |-> <<9>>, iResolutionIsVector |-> FALSE]

\* layer sequences in which a descriptor names a reserved uniform
ConflictLayerSeqs == {<<"C">>, <<"A", "C">>}

\* the layer sequences given as the layers prop at mount, at most MaxLayers
\* long: no layer, one layer, two layers, and the sequences with a conflict
LayerSeqs ==
    {ls \in {<<>>, <<"A">>, <<"A", "B">>} \cup ConflictLayerSeqs :
        Len(ls) <= MaxLayers}

\* the layer sequences given as the layers prop by a later render
RerenderLayerSeqs == {<<>>, <<"A", "B">>}

CapDevicePixelRatios == {2, 4}             \* 1, 2 (the default)

\* Host configurations: window.devicePixelRatio (halves) and the container's
\* clientWidth and clientHeight.  A ratio of 3 with 100x50, the same container
\* at a ratio of 1.5 (a change of the ratio alone), and a ratio of 1.5 with a
\* container 5 wide and 0 high (an odd product and a zero length).
HostConfigs ==
    {[devicePixelRatio |-> 6, clientWidth |-> 100, clientHeight |-> 50],
     [devicePixelRatio |-> 3, clientWidth |-> 100, clientHeight |-> 50],
     [devicePixelRatio |-> 3, clientWidth |-> 5, clientHeight |-> 0]}

----------------------------------------------------------------------------
(* Helpers *)

Min(a, b) == IF a <= b THEN a ELSE b

\* x || 1 on a pixel ratio (halves): a falsy ratio becomes 1
OrOneRatio(r) == IF r = 0 THEN 2 ELSE r

\* x || 1 on a length
OrOne(x) == IF x = 0 THEN 1 ELSE x

\* Math.floor(length * pixelRatio), pixelRatio in halves
FloorScale(len, ratio) == (len * ratio) \div 2

Ev(e, i, l, t, w, h) == [e |-> e, i |-> i, layer |-> l, t |-> t, w |-> w, h |-> h]

----------------------------------------------------------------------------
(* Host animation frame requests *)

\* a host that drops every request
RequestAnimationFrame_Dropped(q, handle, cb) == q

\* requestAnimationFrame(cb): the queue after the request; the handle returned
\* is the host's nextHandle
RequestAnimationFrame(q, handle, cb) == Append(q, [handle |-> handle, cb |-> cb])

\* cancelAnimationFrame(handle)
CancelAnimationFrame(q, handle) == SelectSeq(q, LAMBDA r : r.handle # handle)

----------------------------------------------------------------------------
(* Materials and resize *)

\* new THREE.ShaderMaterial({...}) for one layer: the merged uniform set is
\* iTime, iResolution and then the layer's own uniforms, so that an entry of
\* the layer replaces the stack's entry of the same name
BuildMaterial(id, devicePixelRatio) ==
    [layer |-> id,
     fragmentShader |-> Layer(id).fragmentShader,
     uniformNames |-> {"iTime", "iResolution"} \cup Layer(id).uniforms,
     iTime |-> IF "iTime" \in Layer(id).uniforms THEN Layer(id).iTime ELSE 0,
     iResolution |-> IF "iResolution" \in Layer(id).uniforms
                     THEN Layer(id).iResolution
                     ELSE <<1, 1, OrOneRatio(devicePixelRatio)>>,
     iResolutionIsVector |-> IF "iResolution" \in Layer(id).uniforms
                             THEN Layer(id).iResolutionIsVector
                             ELSE TRUE,
     blending |-> IF Layer(id).blending = "undefined"
                  THEN "NormalBlending" ELSE Layer(id).blending,
     disposed |-> FALSE]

\* a build that stores the materials in reverse order
BuildMaterials_Reversed(ls, devicePixelRatio) ==
    [i \in 1..Len(ls) |-> BuildMaterial(ls[Len(ls) + 1 - i], devicePixelRatio)]

\* layers.map(...)
BuildMaterials(ls, devicePixelRatio) ==
    [i \in 1..Len(ls) |-> BuildMaterial(ls[i], devicePixelRatio)]

\* dpr of resize()
ResizeDpr(h, cap) == Min(OrOneRatio(h.devicePixelRatio), cap)

\* renderer.setPixelRatio(dpr); renderer.setSize(width, height, false):
\* the drawing buffer is floor(width * dpr) by floor(height * dpr)
ResizeRenderer(r, h, cap) ==
    [r EXCEPT !.pixelRatio = ResizeDpr(h, cap),
              !.width = FloorScale(OrOne(h.clientWidth), ResizeDpr(h, cap)),
              !.height = FloorScale(OrOne(h.clientHeight), ResizeDpr(h, cap))]

\* Whether resize() empties the canvas.  The browser empties a WebGL canvas
\* when an assignment to its width or height changes its size.
\* renderer.setPixelRatio(dpr) sizes the canvas for the width and height of
\* the previous setSize (those of the host values last, read by the resize
\* before) at the new ratio, and renderer.setSize then sizes it for the new
\* width and height.
ResizeEmptiesCanvas(r, last, h, cap) ==
    LET dpr == ResizeDpr(h, cap)
        before == <<r.width, r.height>>
        between == <<FloorScale(OrOne(last.clientWidth), dpr),
                     FloorScale(OrOne(last.clientHeight), dpr)>>
        after == <<FloorScale(OrOne(h.clientWidth), dpr),
                   FloorScale(OrOne(h.clientHeight), dpr)>>
    IN between # before \/ after # between

\* the renderer calls of one resize(): both are made on every call, whatever
\* the size and ratio the renderer already has
ResizeCalls(r, h, cap) == <<"setPixelRatio", "setSize">>

\* u.iResolution.value.set(...) throws a TypeError on a material whose
\* iResolution value has no set method
ResizeThrows(mats) == \E i \in 1..Len(mats) : ~mats[i].iResolutionIsVector

\* u.iResolution.value.set(width, height, dpr) on every material, up to the
\* first one on which it throws
ResizeMaterials(mats, h, cap) ==
    [i \in 1..Len(mats) |->
        IF \A j \in 1..i : mats[j].iResolutionIsVector
        THEN [mats[i] EXCEPT !.iResolution =
                 <<OrOne(h.clientWidth), OrOne(h.clientHeight), ResizeDpr(h, cap)>>]
        ELSE mats[i]]

----------------------------------------------------------------------------
(* One frame *)

\* a time that runs backwards
FrameTime_Backwards(n, start) == start - n

\* t of renderFrame, in thousandths of a second
FrameTime(n, start) == n - start

\* a loop body that draws before it updates the layer
LayerPass_DrawFirst(i, mats, ls, t, w, h, autoClear) ==
    (IF autoClear THEN <<Ev("autoClear", i - 1, mats[i].layer, t, 0, 0)>> ELSE <<>>)
    \o <<Ev("render", i - 1, mats[i].layer, t, 0, 0)>>
    \o <<Ev("iTime", i - 1, mats[i].layer, t, 0, 0)>>
    \o (IF i <= Len(ls) /\ Layer(ls[i]).onBeforeFrame
        THEN <<Ev("onBeforeFrame", i - 1, ls[i], t, w, h)>>
        ELSE <<>>)

\* the body of the for loop of renderFrame for index i (1-based here, the
\* events carry the source's 0-based index)
LayerPass(i, mats, ls, t, w, h, autoClear) ==
    <<Ev("iTime", i - 1, mats[i].layer, t, 0, 0)>>
    \o (IF i <= Len(ls) /\ Layer(ls[i]).onBeforeFrame
        THEN <<Ev("onBeforeFrame", i - 1, ls[i], t, w, h)>>
        ELSE <<>>)
    \o (IF autoClear THEN <<Ev("autoClear", i - 1, mats[i].layer, t, 0, 0)>> ELSE <<>>)
    \o <<Ev("render", i - 1, mats[i].layer, t, 0, 0)>>

RECURSIVE LayerPasses(_, _, _, _, _, _, _)
\* the for loop of renderFrame from index i on
LayerPasses(i, mats, ls, t, w, h, autoClear) ==
    IF i > Len(mats) THEN <<>>
    ELSE LayerPass(i, mats, ls, t, w, h, autoClear)
         \o LayerPasses(i + 1, mats, ls, t, w, h, autoClear)

\* the calls of one renderFrame that passes the guard
FrameCalls(mats, ls, t, r) ==
    <<Ev("clear", 0, "", t, 0, 0)>>
    \o LayerPasses(1, mats, ls, t, r.width, r.height, r.autoClear)
    \o <<Ev("requestAnimationFrame", 0, "", t, 0, 0)>>

RECURSIVE ApplySurface(_, _)
\* the canvas after a sequence of calls: a clear (renderer.clear(), or the
\* clear renderer.render() does first when autoClear is set) empties it, a
\* draw composites the layer on top
ApplySurface(surf, calls) ==
    IF calls = <<>> THEN surf
    ELSE LET c == Head(calls) IN
         ApplySurface(IF c.e \in {"clear", "autoClear"} THEN <<>>
                      ELSE IF c.e = "render" THEN Append(surf, c.layer)
                      ELSE surf,
                      Tail(calls))

\* a guard that reads the current props and state instead of the captured ones
FrameSkipped_Current(c) == paused \/ (~isVisible /\ ~animateWhenOffscreen)

\* the guard of renderFrame, on the values its closure holds
FrameSkipped(c) == c.paused \/ (~c.isVisible /\ ~c.animateWhenOffscreen)

\* number of draw calls in a log
Draws(log) == Len(SelectSeq(log, LAMBDA c : c.e = "render"))

----------------------------------------------------------------------------
(* The component *)

\* the values the closures of the mount effect (resize, renderFrame, the
\* IntersectionObserver callback) read: those of the render that mounted
Captured ==
    [paused |-> paused, isVisible |-> isVisible,
     animateWhenOffscreen |-> animateWhenOffscreen, layers |-> layers,
     capDevicePixelRatio |-> capDevicePixelRatio]

\* CooldownStack before its first render
CooldownNotRendered ==
    [rendered |-> FALSE, shaped |-> 0, memoDeps |-> 0, layers |-> <<>>]

\* no component uses useMirroredImage: nothing is rendered, no image loads
MirrorIdle ==
    [mounted |-> FALSE, src |-> 0, axis |-> "vertical", mirroredUrl |-> <<>>,
     loads |-> {}, effectPending |-> FALSE]

\* the refs and state the first render of ShaderStack creates for the props
\* it is given; no effect has run
StackCreated ==
    /\ status = "rendered"
    /\ isVisible = TRUE
    /\ closure = Captured
    /\ frameRef = 0
    /\ rafQueue = <<>>
    /\ nextHandle = 1
    /\ now = 0
    /\ startTimeRef = now
    /\ renderer = [created |-> FALSE, autoClear |-> FALSE, pixelRatio |-> 2,
                   width |-> 0, height |-> 0, attached |-> FALSE, disposed |-> FALSE]
    /\ surface = <<>>
    /\ materialsRef = <<>>
    /\ geometryDisposed = FALSE
    /\ roConnected = FALSE
    /\ ioConnected = FALSE
    /\ frameLog = <<>>
    /\ pauseResume = FALSE
    /\ visResume = FALSE
    /\ resizeLog = [host |-> host, same |-> FALSE, calls |-> <<>>]
    /\ disposeLog = <<>>
    /\ thrown = "none"
    /\ diagnostics = 0
    /\ alwaysEligible = ~paused
    /\ effectPending = FALSE
    /\ roReported = NotReported

\* the first render of ShaderStack, for any props and host
StackInit ==
    /\ paused \in BOOLEAN
    /\ layers \in LayerSeqs
    /\ animateWhenOffscreen \in BOOLEAN
    /\ capDevicePixelRatio \in CapDevicePixelRatios
    /\ host \in HostConfigs
    /\ StackCreated

\* the first render: ShaderStack alone on the page
Init ==
    /\ StackInit
    /\ cooldown = CooldownNotRendered
    /\ mirror = MirrorIdle

\* a paused effect that requests a frame without looking at frameRef
PausedEffectRequests_Unguarded(p, fr) == ~p

\* useEffect(() => { if (paused) return; if (!frameRef.current) ... }, [paused])
\* for the value p of paused: TRUE iff it requests a frame
PausedEffectRequests(p, fr) == ~p /\ fr = 0

\* new THREE.WebGLRenderer(...); renderer.autoClear = true; appendChild
NewRenderer ==
    [created |-> TRUE, autoClear |-> TRUE, pixelRatio |-> 2,
     width |-> 0, height |-> 0, attached |-> TRUE, disposed |-> FALSE]

\* The paused effect of a commit whose mount effect threw: whether React
\* still runs it depends on how it runs the effects of one component, so it
\* either runs (ran) or is skipped.
PausedEffectAfterThrow(ran) ==
    IF ran /\ PausedEffectRequests(paused, frameRef)
    THEN /\ frameRef' = nextHandle
         /\ rafQueue' = RequestAnimationFrame(rafQueue, nextHandle, "noop")
         /\ nextHandle' = nextHandle + 1
    ELSE UNCHANGED <<frameRef, rafQueue, nextHandle>>

\* The first commit on a host that gives no WebGL context: the constructor
\* of THREE.WebGLRenderer logs the error to the console and rethrows it, and
\* the mount effect has no try/catch, so the error leaves the effect.
MountNoContext ==
    /\ status = "rendered"
    /\ status' = "failed"
    /\ thrown' = "Error"
    /\ diagnostics' = diagnostics + 1
    /\ \E ran \in BOOLEAN : PausedEffectAfterThrow(ran)
    /\ UNCHANGED <<paused, layers, animateWhenOffscreen, capDevicePixelRatio, isVisible,
                   closure, now, startTimeRef, host, renderer, surface, materialsRef,
                   geometryDisposed, roConnected, ioConnected, frameLog, pauseResume,
                   visResume, resizeLog, disposeLog, alwaysEligible,
                   effectPending, roReported, cooldown, mirror>>

\* The first commit with a layer on which the initial resize() throws: the
\* renderer is created and attached, the materials are built and stored, the
\* renderer is resized, and the TypeError leaves the effect before any
\* observer or frame request is set up and before a cleanup is returned.
MountResizeThrows ==
    /\ status = "rendered"
    /\ ResizeThrows(BuildMaterials(layers, host.devicePixelRatio))
    /\ status' = "failed"
    /\ thrown' = "TypeError"
    /\ closure' = Captured
    /\ renderer' = ResizeRenderer(NewRenderer, host, capDevicePixelRatio)
    /\ materialsRef' = ResizeMaterials(BuildMaterials(layers, host.devicePixelRatio),
                                       host, capDevicePixelRatio)
    /\ resizeLog' = [host |-> host, same |-> FALSE,
                     calls |-> ResizeCalls(NewRenderer, host, capDevicePixelRatio)]
    /\ \E ran \in BOOLEAN : PausedEffectAfterThrow(ran)
    /\ UNCHANGED <<paused, layers, animateWhenOffscreen, capDevicePixelRatio, isVisible,
                   now, startTimeRef, host, surface, geometryDisposed, roConnected,
                   ioConnected, frameLog, pauseResume, visResume, disposeLog,
                   diagnostics, alwaysEligible,
                   effectPending, roReported, cooldown, mirror>>

\* The effects of the first commit: the mount effect, then the paused effect.
Mount ==
    /\ status = "rendered"
    /\ ~ResizeThrows(BuildMaterials(layers, host.devicePixelRatio))
    /\ nextHandle <= MaxHandle
    /\ status' = "mounted"
    /\ closure' = Captured
    /\ renderer' = ResizeRenderer(NewRenderer, host, capDevicePixelRatio)
    /\ materialsRef' = ResizeMaterials(BuildMaterials(layers, host.devicePixelRatio),
                                       host, capDevicePixelRatio)
    /\ roConnected' = TRUE
    \* the host is one that has IntersectionObserver
    /\ ioConnected' = ~animateWhenOffscreen
    \* frameRef.current = requestAnimationFrame(renderFrame); the paused effect
    \* that follows finds frameRef.current set
    /\ LET fr == nextHandle
           q == RequestAnimationFrame(rafQueue, nextHandle, "renderFrame")
       IN IF PausedEffectRequests(paused, fr)
          THEN /\ frameRef' = nextHandle + 1
               /\ rafQueue' = RequestAnimationFrame(q, nextHandle + 1, "noop")
               /\ nextHandle' = nextHandle + 2
          ELSE /\ frameRef' = fr
               /\ rafQueue' = q
               /\ nextHandle' = nextHandle + 1
    /\ resizeLog' = [host |-> host, same |-> FALSE,
                     calls |-> ResizeCalls(NewRenderer, host, capDevicePixelRatio)]
    /\ UNCHANGED <<paused, layers, animateWhenOffscreen, capDevicePixelRatio, isVisible,
                   now, startTimeRef, host, surface, geometryDisposed, frameLog,
                   pauseResume, visResume, disposeLog, thrown, diagnostics,
                   alwaysEligible,
                   effectPending, roReported, cooldown, mirror>>

\* The parent re-renders with another value of paused.  The paused effect
\* is a passive effect: it runs later, and host callbacks can run before it.
\* React runs a pending passive effect before it renders again, so every
\* re-render waits for it.
SetPaused(p) ==
    /\ status = "mounted"
    /\ ~effectPending
    /\ p # paused
    /\ paused' = p
    /\ effectPending' = TRUE
    /\ pauseResume' = ~p
    /\ alwaysEligible' = (alwaysEligible /\ ~p)
    /\ UNCHANGED <<status, layers, animateWhenOffscreen, capDevicePixelRatio, isVisible,
                   closure, frameRef, rafQueue, nextHandle, now, startTimeRef, host,
                   renderer, surface, materialsRef, geometryDisposed, roConnected,
                   ioConnected, frameLog, visResume, resizeLog, disposeLog, thrown,
                   diagnostics, roReported, cooldown, mirror>>

\* The paused effect runs for the committed value of paused.
PausedEffect ==
    /\ status = "mounted"
    /\ effectPending
    /\ effectPending' = FALSE
    /\ IF PausedEffectRequests(paused, frameRef)
       THEN /\ nextHandle <= MaxHandle
            /\ frameRef' = nextHandle
            /\ rafQueue' = RequestAnimationFrame(rafQueue, nextHandle, "noop")
            /\ nextHandle' = nextHandle + 1
       ELSE UNCHANGED <<frameRef, rafQueue, nextHandle>>
    /\ UNCHANGED <<status, paused, layers, animateWhenOffscreen, capDevicePixelRatio,
                   isVisible, closure, now, startTimeRef, host, renderer, surface,
                   materialsRef, geometryDisposed, roConnected, ioConnected, frameLog,
                   pauseResume, visResume, resizeLog, disposeLog, thrown, diagnostics,
                   alwaysEligible, roReported, cooldown, mirror>>

\* The parent re-renders with another layers array; neither effect has layers
\* among its dependencies, so no effect runs.
SetLayers(ls) ==
    /\ status = "mounted"
    /\ ~effectPending
    /\ ls # layers
    /\ layers' = ls
    /\ UNCHANGED <<status, paused, animateWhenOffscreen, capDevicePixelRatio, isVisible,
                   closure, frameRef, rafQueue, nextHandle, now, startTimeRef, host,
                   renderer, surface, materialsRef, geometryDisposed, roConnected,
                   ioConnected, frameLog, pauseResume, visResume, resizeLog, disposeLog,
                   thrown, diagnostics, alwaysEligible, effectPending, roReported,
                   cooldown, mirror>>

\* The parent re-renders with another capDevicePixelRatio; no effect runs,
\* and resize keeps the value captured at mount.
SetCapDevicePixelRatio(c) ==
    /\ status = "mounted"
    /\ ~effectPending
    /\ c # capDevicePixelRatio
    /\ capDevicePixelRatio' = c
    /\ UNCHANGED <<status, paused, layers, animateWhenOffscreen, isVisible,
                   closure, frameRef, rafQueue, nextHandle, now, startTimeRef, host,
                   renderer, surface, materialsRef, geometryDisposed, roConnected,
                   ioConnected, frameLog, pauseResume, visResume, resizeLog, disposeLog,
                   thrown, diagnostics, alwaysEligible, effectPending, roReported,
                   cooldown, mirror>>

\* The parent re-renders with another animateWhenOffscreen; no effect runs:
\* the IntersectionObserver stays as the mount effect set it up, and
\* renderFrame keeps the value captured at mount.
SetAnimateWhenOffscreen(b) ==
    /\ status = "mounted"
    /\ ~effectPending
    /\ b # animateWhenOffscreen
    /\ animateWhenOffscreen' = b
    /\ alwaysEligible' = (alwaysEligible /\ (isVisible \/ b))
    /\ UNCHANGED <<status, paused, layers, capDevicePixelRatio, isVisible,
                   closure, frameRef, rafQueue, nextHandle, now, startTimeRef, host,
                   renderer, surface, materialsRef, geometryDisposed, roConnected,
                   ioConnected, frameLog, pauseResume, visResume, resizeLog, disposeLog,
                   thrown, diagnostics, effectPending, roReported, cooldown, mirror>>

\* an observer callback that drops the materials when the container leaves
\* the viewport
Intersection_Teardown(b) ==
    /\ status = "mounted"
    /\ ~effectPending
    /\ ioConnected
    /\ isVisible' = b
    /\ visResume' = IF b THEN (visResume \/ ~isVisible) ELSE FALSE
    /\ alwaysEligible' = (alwaysEligible /\ (b \/ animateWhenOffscreen))
    /\ materialsRef' = IF b THEN materialsRef ELSE <<>>
    /\ UNCHANGED <<status, paused, layers, animateWhenOffscreen, capDevicePixelRatio,
                   closure, frameRef, rafQueue, nextHandle, now, startTimeRef, host,
                   renderer, surface, geometryDisposed, roConnected,
                   ioConnected, frameLog, pauseResume,
                   resizeLog, disposeLog, thrown, diagnostics,
                   effectPending, roReported, cooldown, mirror>>

\* The IntersectionObserver callback, setIsVisible(entry.isIntersecting), and
\* the re-render it causes (which waits for a pending passive effect).
Intersection(b) ==
    /\ status = "mounted"
    /\ ~effectPending
    /\ ioConnected
    /\ isVisible' = b
    /\ visResume' = IF b THEN (visResume \/ ~isVisible) ELSE FALSE
    /\ alwaysEligible' = (alwaysEligible /\ (b \/ animateWhenOffscreen))
    /\ UNCHANGED <<status, paused, layers, animateWhenOffscreen, capDevicePixelRatio,
                   closure, frameRef, rafQueue, nextHandle, now, startTimeRef, host,
                   renderer, surface, materialsRef, geometryDisposed, roConnected,
                   ioConnected, frameLog, pauseResume,
                   resizeLog, disposeLog, thrown, diagnostics,
                   effectPending, roReported, cooldown, mirror>>

\* The ResizeObserver has a notification to deliver for the size of the
\* container: observe() is always followed by a first notification, whatever
\* the size (also for an empty container), and so is every change of
\* clientWidth or clientHeight.
RoPending == roConnected /\ <<host.clientWidth, host.clientHeight>> # roReported

\* The container's size or window.devicePixelRatio changes.  Nothing of the
\* component runs: the ResizeObserver reports a new size later, and a change
\* of the ratio alone is not reported at all.
HostChange(hc) ==
    /\ status = "mounted"
    /\ hc # host
    /\ host' = hc
    /\ UNCHANGED <<status, paused, layers, animateWhenOffscreen, capDevicePixelRatio,
                   isVisible, closure, frameRef, rafQueue, nextHandle, now, startTimeRef,
                   renderer, surface, materialsRef, geometryDisposed, roConnected,
                   ioConnected, frameLog, pauseResume, visResume, resizeLog, disposeLog,
                   thrown, diagnostics, alwaysEligible, effectPending, roReported,
                   cooldown, mirror>>

\* The callback of the ResizeObserver, resize, runs on the values the host
\* has now.
ObserverResize ==
    /\ roReported' = <<host.clientWidth, host.clientHeight>>
    /\ renderer' = ResizeRenderer(renderer, host, closure.capDevicePixelRatio)
    /\ materialsRef' = ResizeMaterials(materialsRef, host, closure.capDevicePixelRatio)
    /\ resizeLog' = [host |-> host, same |-> (host = resizeLog.host),
                     calls |-> ResizeCalls(renderer, host, closure.capDevicePixelRatio)]
    /\ surface' = IF ResizeEmptiesCanvas(renderer, resizeLog.host, host,
                                         closure.capDevicePixelRatio)
                  THEN <<>> ELSE surface
    /\ UNCHANGED <<status, paused, layers, animateWhenOffscreen, capDevicePixelRatio,
                   isVisible, closure, frameRef, rafQueue, nextHandle, now, startTimeRef,
                   host, geometryDisposed, roConnected, ioConnected, frameLog,
                   pauseResume, visResume, disposeLog, thrown, diagnostics,
                   alwaysEligible, effectPending, cooldown, mirror>>

\* The ResizeObserver delivers the notification that is due (the first one
\* right after observe()) and resize runs.
ContainerResize ==
    /\ status = "mounted"
    /\ RoPending
    /\ ObserverResize

\* The content box of the container changes and clientWidth and clientHeight
\* stay as they are (a width of 100px becomes 100.4px, a padding is put on
\* the container), and the ResizeObserver, which observes the content box,
\* delivers a notification: resize runs on the host values it has read
\* before.  The change itself alters no variable, so it is not a step of its
\* own.
ContentBoxResize ==
    /\ status = "mounted"
    /\ roConnected
    /\ ~RoPending
    /\ ObserverResize

\* performance.now() advances
ClockAdvance ==
    /\ now < MaxNow
    /\ now' = now + 1
    /\ UNCHANGED <<status, paused, layers, animateWhenOffscreen, capDevicePixelRatio,
                   isVisible, closure, frameRef, rafQueue, nextHandle, startTimeRef, host,
                   renderer, surface, materialsRef, geometryDisposed, roConnected,
                   ioConnected, frameLog, pauseResume, visResume,
                   resizeLog, disposeLog, thrown, diagnostics, alwaysEligible,
                   effectPending, roReported, cooldown, mirror>>

\* materials after the for loop of renderFrame: mat.uniforms.iTime.value = t
TimedMaterials(mats, t) == [i \in 1..Len(mats) |-> [mats[i] EXCEPT !.iTime = t]]

\* The host runs the oldest pending request, and it is renderFrame.  The
\* calls of the frame are those logged in frameLog'.
RenderFrame ==
    /\ rafQueue # <<>>
    /\ Head(rafQueue).cb = "renderFrame"
    /\ FrameSkipped(closure) \/ nextHandle <= MaxHandle
    /\ frameRef' = IF FrameSkipped(closure) THEN 0 ELSE nextHandle
    /\ nextHandle' = IF FrameSkipped(closure) THEN nextHandle ELSE nextHandle + 1
    /\ rafQueue' = IF FrameSkipped(closure) THEN Tail(rafQueue)
                   ELSE RequestAnimationFrame(Tail(rafQueue), nextHandle, "renderFrame")
    /\ frameLog' = IF FrameSkipped(closure) THEN <<>>
                   ELSE FrameCalls(materialsRef, closure.layers,
                                   FrameTime(now, startTimeRef), renderer)
    /\ materialsRef' = IF FrameSkipped(closure) THEN materialsRef
                       ELSE TimedMaterials(materialsRef, FrameTime(now, startTimeRef))
    /\ surface' = ApplySurface(surface, frameLog')
    /\ pauseResume' = FALSE
    /\ visResume' = FALSE
    /\ UNCHANGED <<status, paused, layers, animateWhenOffscreen, capDevicePixelRatio,
                   isVisible, closure, now, startTimeRef, host, renderer,
                   geometryDisposed, roConnected, ioConnected,
                   resizeLog, disposeLog, thrown, diagnostics, alwaysEligible,
                   effectPending, roReported, cooldown, mirror>>

\* The host runs the oldest pending request, and it is the empty callback the
\* paused effect registered.
NoopFrame ==
    /\ rafQueue # <<>>
    /\ Head(rafQueue).cb = "noop"
    /\ rafQueue' = Tail(rafQueue)
    /\ frameLog' = <<>>
    /\ pauseResume' = FALSE
    /\ visResume' = FALSE
    /\ UNCHANGED <<status, paused, layers, animateWhenOffscreen, capDevicePixelRatio,
                   isVisible, closure, frameRef, nextHandle, now, startTimeRef, host,
                   renderer, surface, materialsRef, geometryDisposed, roConnected,
                   ioConnected,
                   resizeLog, disposeLog, thrown, diagnostics, alwaysEligible,
                   effectPending, roReported, cooldown, mirror>>

\* a cleanup that forgets to cancel the pending request
CleanupCancel_Forgotten(q, fr) == q

\* cancelAnimationFrame of the cleanup: if (frameRef.current) cancel...
CleanupCancel(q, fr) == IF fr # 0 THEN CancelAnimationFrame(q, fr) ELSE q

\* a cleanup that removes the canvas without looking at its parent
RemovesChild_Always(r) == TRUE

\* if (renderer.domElement.parentElement === container) of the cleanup
RemovesChild(r) == r.attached

\* the calls of one run of the cleanup, in order; io is the effect's local
\* variable (non-null iff the observer was created), mats is materialsRef.current
CleanupCalls(fr, io, mats, r) ==
    (IF fr # 0 THEN <<"cancelAnimationFrame">> ELSE <<>>)
    \o (IF io THEN <<"io.disconnect">> ELSE <<>>)
    \o <<"ro.disconnect", "scene.remove", "geometry.dispose">>
    \o [i \in 1..Len(mats) |-> "material.dispose"]
    \o <<"renderer.dispose">>
    \o (IF RemovesChild(r) THEN <<"removeChild">> ELSE <<>>)

\* The function the mount effect returns.  container.removeChild throws a
\* NotFoundError when the canvas is not a child of the container.
Cleanup ==
    /\ rafQueue' = CleanupCancel(rafQueue, frameRef)
    /\ ioConnected' = FALSE
    /\ roConnected' = FALSE
    /\ roReported' = NotReported
    /\ geometryDisposed' = TRUE
    /\ renderer' = [renderer EXCEPT !.disposed = TRUE, !.attached = FALSE]
    /\ materialsRef' = <<>>
    /\ disposeLog' = CleanupCalls(frameRef, ~closure.animateWhenOffscreen,
                                  materialsRef, renderer)
    /\ thrown' = IF RemovesChild(renderer) /\ ~renderer.attached
                 THEN "NotFoundError" ELSE thrown
    /\ UNCHANGED <<paused, layers, animateWhenOffscreen, capDevicePixelRatio, isVisible,
                   closure, frameRef, nextHandle, now, startTimeRef, host, surface,
                   frameLog, pauseResume, visResume, resizeLog, diagnostics,
                   alwaysEligible,
                   effectPending, cooldown, mirror>>

\* The cleanup of the mount effect, on unmount.
Unmount ==
    /\ status = "mounted"
    /\ ~effectPending
    /\ status' = "disposed"
    /\ Cleanup

\* The cleanup function is called once more after the unmount.
CleanupAgain ==
    /\ status = "disposed"
    /\ status' = status
    /\ Cleanup

Next ==
    \/ Mount
    \/ MountNoContext
    \/ MountResizeThrows
    \/ \E p \in BOOLEAN : SetPaused(p)
    \/ PausedEffect
    \/ \E ls \in RerenderLayerSeqs : SetLayers(ls)
    \/ \E c \in CapDevicePixelRatios : SetCapDevicePixelRatio(c)
    \/ \E b \in BOOLEAN : SetAnimateWhenOffscreen(b)
    \/ \E b \in BOOLEAN : Intersection(b)
    \/ \E hc \in HostConfigs : HostChange(hc)
    \/ ContainerResize
    \/ ContentBoxResize
    \/ ClockAdvance
    \/ RenderFrame
    \/ NoopFrame
    \/ Unmount
    \/ CleanupAgain

Spec == Init /\ [][Next]_vars

\* the stacks mounted for the progress check: two layers, and one on which
\* the mount fails
FairLayerSeqs == {<<"A", "B">>, <<"C">>}

\* The first render for the progress check: one of these stacks, not paused,
\* with the default capDevicePixelRatio, on a host of device pixel ratio 3.
\* Later renders and host changes are those of Next.
FairInit ==
    /\ Init
    /\ layers \in FairLayerSeqs
    /\ ~paused
    /\ capDevicePixelRatio = 4
    /\ host.devicePixelRatio = 6

\* The host runs every pending animation frame request: a request for
\* renderFrame that stays pending is eventually run.
FairSpec == FairInit /\ [][Next]_vars /\ WF_vars(RenderFrame)

----------------------------------------------------------------------------
(* CooldownStack *)

\* a ShaderStack that is not on the page (MirrorSpec), with default props
StackNotRendered ==
    /\ paused = FALSE
    /\ layers = <<>>
    /\ animateWhenOffscreen = FALSE
    /\ capDevicePixelRatio = 4
    /\ host = [devicePixelRatio |-> 6, clientWidth |-> 100, clientHeight |-> 50]
    /\ StackCreated

stackVars == <<status, paused, layers, animateWhenOffscreen, capDevicePixelRatio,
               isVisible, closure, frameRef, rafQueue, nextHandle, now, startTimeRef,
               host, renderer, surface, materialsRef, geometryDisposed, roConnected,
               ioConnected, frameLog, pauseResume, visResume, resizeLog, disposeLog,
               thrown, diagnostics, alwaysEligible, effectPending, roReported>>

\* (X as any)._rawLayer?.(shaped) for X = LightningShader, SteamShader: no
\* file of the repository assigns a _rawLayer property (SteamShader is a
\* function component without one), so the optional call is not made and the
\* expression is undefined, whatever shaped is.
RawLayer(component, shaped) == "undefined"

\* the body of the useMemo of CooldownStack: lightning is pushed first, then
\* steam, each only if its helper gave a descriptor
CooldownLayers(shaped) ==
    LET lightning == RawLayer("LightningShader", shaped)
        steam == RawLayer("SteamShader", shaped)
    IN  (IF lightning # "undefined" THEN <<lightning>> ELSE <<>>)
        \o (IF steam # "undefined" THEN <<steam>> ELSE <<>>)

\* useMemo(..., [shaped]): recomputed on the first render and when shaped
\* differs from the value of the previous render
MemoLayers(c, shaped) ==
    IF ~c.rendered \/ shaped # c.memoDeps
    THEN CooldownLayers(shaped)
    ELSE c.layers

\* CooldownStack after a render with shaped = s
CooldownRendered(c, s) ==
    [c EXCEPT !.rendered = TRUE, !.shaped = s, !.memoDeps = s,
              !.layers = MemoLayers(c, s)]

\* <ShaderStack layers={layers} transparent />: the layers prop of the child
StackLayersProp(c) == c.layers

\* CooldownStack renders again with shaped = s; its child ShaderStack, whose
\* effects have run, renders with the memoised layers and runs no effect.
CooldownRender(s) ==
    /\ status = "mounted"
    /\ s # cooldown.shaped
    /\ cooldown' = CooldownRendered(cooldown, s)
    /\ layers' = StackLayersProp(cooldown')
    /\ UNCHANGED <<status, paused, animateWhenOffscreen, capDevicePixelRatio, isVisible,
                   closure, frameRef, rafQueue, nextHandle, now, startTimeRef, host,
                   renderer, surface, materialsRef, geometryDisposed, roConnected,
                   ioConnected, frameLog, pauseResume, visResume, resizeLog, disposeLog,
                   thrown, diagnostics, alwaysEligible, effectPending, roReported,
                   mirror>>

\* The first render of CooldownStack, for any shaped: its child ShaderStack
\* is rendered with the memoised layers and the default paused,
\* capDevicePixelRatio and animateWhenOffscreen.
CooldownInit ==
    /\ cooldown \in {CooldownRendered(CooldownNotRendered, s) : s \in 0..MaxShaped}
    /\ mirror = MirrorIdle
    /\ paused = FALSE
    /\ layers = StackLayersProp(cooldown)
    /\ animateWhenOffscreen = FALSE
    /\ capDevicePixelRatio = 4
    /\ host \in HostConfigs
    /\ StackCreated

\* CooldownStack renders, and its child ShaderStack takes every step it
\* takes in Spec but a change of its props, which CooldownStack never makes
\* (it passes layers and transparent only).  With no layer and paused left at
\* its default, MountResizeThrows and PausedEffect are never enabled here.
CooldownNext ==
    \/ \E s \in 0..MaxShaped : CooldownRender(s)
    \/ Mount
    \/ MountNoContext
    \/ MountResizeThrows
    \/ PausedEffect
    \/ \E b \in BOOLEAN : Intersection(b)
    \/ \E hc \in HostConfigs : HostChange(hc)
    \/ ContainerResize
    \/ ContentBoxResize
    \/ ClockAdvance
    \/ RenderFrame
    \/ NoopFrame
    \/ Unmount
    \/ CleanupAgain

CooldownSpec == CooldownInit /\ [][CooldownNext]_vars

\* With no _rawLayer helper in the repository, the memoised sequence is empty
\* after every render, and so is the layers prop of the child ShaderStack.
CooldownPassesNoLayer ==
    /\ cooldown.rendered
    /\ cooldown.layers = <<>>
    /\ layers = <<>>

----------------------------------------------------------------------------
(* useMirroredImage *)

MaxSrc == 2         \* number of distinct image urls; src 0 is undefined
MaxLoads == 2       \* largest number of images loading at once

MirrorAxes == {"horizontal", "vertical"}

\* the hook after the first render, for src s and axis a: useState<string>()
\* is undefined (the empty tuple here), and the effect has not run yet
MirrorRendered(s, a) ==
    [mounted |-> TRUE, src |-> s, axis |-> a, mirroredUrl |-> <<>>,
     loads |-> {}, effectPending |-> TRUE]

\* canvas.toDataURL of the image s drawn flipped about axis a; the empty tuple
\* stands for undefined
DataUrl(s, a) == <<s, a>>

\* return mirroredUrl ?? src
MirrorResult(m) ==
    IF m.mirroredUrl # <<>>
    THEN [kind |-> "mirrored", src |-> m.mirroredUrl[1], axis |-> m.mirroredUrl[2]]
    ELSE [kind |-> "plain", src |-> m.src, axis |-> "none"]

\* the cleanup of the effect: canceled = true in the closure of its load
CancelLoads(loads) == {[l EXCEPT !.canceled = TRUE] : l \in loads}

\* A render with another src or axis.  The effect is a passive effect: it
\* runs later, and an image can finish loading before it.  React runs a
\* pending passive effect before it renders again.  mirroredUrl is not written.
MirrorRender(s, a) ==
    /\ mirror.mounted
    /\ ~mirror.effectPending
    /\ <<s, a>> # <<mirror.src, mirror.axis>>
    /\ mirror' = [mirror EXCEPT !.src = s, !.axis = a, !.effectPending = TRUE]
    /\ UNCHANGED <<stackVars, cooldown>>

\* The effect of the last render runs: first the cleanup of the effect
\* before it, then the effect, which returns at once when src is undefined
\* and otherwise starts loading an image.
MirrorEffect ==
    /\ mirror.mounted
    /\ mirror.effectPending
    /\ LET loads == CancelLoads(mirror.loads)
                      \cup (IF mirror.src = 0 THEN {}
                            ELSE {[src |-> mirror.src, axis |-> mirror.axis,
                                   canceled |-> FALSE]})
       IN /\ Cardinality(loads) <= MaxLoads
          /\ mirror' = [mirror EXCEPT !.loads = loads, !.effectPending = FALSE]
    /\ UNCHANGED <<stackVars, cooldown>>

\* The component unmounts: the cleanup of the last effect runs alone.
MirrorUnmount ==
    /\ mirror.mounted
    /\ ~mirror.effectPending
    /\ mirror' = [mirror EXCEPT !.mounted = FALSE, !.loads = CancelLoads(mirror.loads)]
    /\ UNCHANGED <<stackVars, cooldown>>

\* img.onload for the load l.  outcome "ok": the data url is computed;
\* "noContext": getContext('2d') is null and the handler returns; "throws":
\* drawing or toDataURL throws and the catch branch runs.
ImageLoaded(l, outcome) ==
    /\ l \in mirror.loads
    /\ mirror' = [mirror EXCEPT
                     !.loads = mirror.loads \ {l},
                     !.mirroredUrl =
                         IF l.canceled \/ outcome = "noContext" THEN mirror.mirroredUrl
                         ELSE IF outcome = "ok" THEN DataUrl(l.src, l.axis)
                         ELSE <<>>]
    /\ UNCHANGED <<stackVars, cooldown>>

\* img.onerror for the load l
ImageError(l) ==
    /\ l \in mirror.loads
    /\ mirror' = [mirror EXCEPT
                     !.loads = mirror.loads \ {l},
                     !.mirroredUrl = IF l.canceled THEN mirror.mirroredUrl ELSE <<>>]
    /\ UNCHANGED <<stackVars, cooldown>>

MirrorInit ==
    /\ StackNotRendered
    /\ cooldown = CooldownNotRendered
    /\ mirror \in {MirrorRendered(s, a) : s \in 0..MaxSrc, a \in MirrorAxes}

MirrorNext ==
    \/ \E s \in 0..MaxSrc, a \in MirrorAxes : MirrorRender(s, a)
    \/ MirrorEffect
    \/ MirrorUnmount
    \/ \E l \in mirror.loads, o \in {"ok", "noContext", "throws"} : ImageLoaded(l, o)
    \/ \E l \in mirror.loads : ImageError(l)

MirrorSpec == MirrorInit /\ [][MirrorNext]_vars

----------------------------------------------------------------------------
(* Claims *)

\* a step in which the host ran a frame callback: the oldest pending request
\* is gone and the component is neither mounting nor unmounting
FrameCallbackRan ==
    /\ rafQueue # <<>>
    /\ status' = status
    /\ \A k \in 1..Len(rafQueue') : rafQueue'[k].handle # Head(rafQueue).handle

\* the number of requests for the render function pending after the step
PendingRendersAfter == Len(SelectSeq(rafQueue', LAMBDA r : r.cb = "renderFrame"))

\* C1: no frame callback that runs while the current value of paused is TRUE
\* issues a draw call, also when paused was FALSE at mount and became TRUE later.
C1_NoDrawWhilePaused ==
    [][(FrameCallbackRan /\ paused) => Draws(frameLog') = 0]_vars

\* C2: after paused went from TRUE to FALSE while the stack is mounted and
\* visible, the next frame callback the host runs is the render function,
\* issues one draw call per layer and re-arms the loop (so that frame callback,
\* which ran while paused was FALSE, is a drawn frame).
C2_ResumeAfterUnpause ==
    [][(/\ FrameCallbackRan
        /\ status = "mounted"
        /\ materialsRef # <<>>
        /\ pauseResume
        /\ ~paused
        /\ (isVisible \/ animateWhenOffscreen))
       => /\ Head(rafQueue).cb = "renderFrame"
          /\ Draws(frameLog') = Len(materialsRef)
          /\ PendingRendersAfter = 1]_vars

\* C3: with animateWhenOffscreen and paused both FALSE, once the intersection
\* observer has reported the container visible again after an invisible
\* period, the next frame callback is the render function and draws every layer.
C3_ResumeAfterVisible ==
    [][(/\ FrameCallbackRan
        /\ status = "mounted"
        /\ materialsRef # <<>>
        /\ ~animateWhenOffscreen
        /\ visResume
        /\ isVisible
        /\ ~paused)
       => /\ Head(rafQueue).cb = "renderFrame"
          /\ Draws(frameLog') = Len(materialsRef)]_vars

\* C4: with animateWhenOffscreen FALSE, no frame callback that runs while the
\* latest intersection notification said "not intersecting" issues a draw call.
C4_NoDrawWhileInvisible ==
    [][(FrameCallbackRan /\ ~animateWhenOffscreen /\ ~isVisible)
       => Draws(frameLog') = 0]_vars

\* C5: a frame callback that runs while the frame is not eligible (paused, or
\* invisible without animateWhenOffscreen) and the stack is not disposed draws
\* nothing and leaves a request for the render function pending.
C5_SkippedFrameRearms ==
    [][(/\ FrameCallbackRan
        /\ status = "mounted"
        /\ (paused \/ (~isVisible /\ ~animateWhenOffscreen)))
       => /\ Draws(frameLog') = 0
          /\ PendingRendersAfter >= 1]_vars

\* C6: once the cleanup has run, no frame request is pending, and no step
\* runs a frame callback, issues a draw call or requests a frame.
C6_NoFrameAfterDispose ==
    [][status = "disposed" =>
          /\ rafQueue = <<>>
          /\ rafQueue' = <<>>
          /\ nextHandle' = nextHandle
          /\ frameLog' = frameLog
          /\ surface' = surface]_vars

\* C6 witness: the cleanup ran while a request for the render function was
\* pending (the loop was drawing, and frameRef holds the last handle the host
\* gave out), and the request is gone.
C6_Witness ==
    /\ status = "disposed"
    /\ frameLog # <<>>
    /\ frameRef # 0
    /\ frameRef = nextHandle - 1
    /\ rafQueue = <<>>

\* C7: in every rendered frame the surface is cleared before the first draw
\* and never between the draws of two layers, so that at the end of the frame
\* it holds all N layers, later ones on top of earlier ones.
C7_ClearedOncePerFrame ==
    [][(FrameCallbackRan /\ frameLog' # <<>>) =>
        LET clears == {k \in 1..Len(frameLog') :
                          frameLog'[k].e \in {"clear", "autoClear"}}
            draws == {k \in 1..Len(frameLog') : frameLog'[k].e = "render"}
        IN /\ clears # {}
           /\ \A c \in clears : \A d \in draws : c < d
           /\ surface' = closure.layers]_vars

\* C8: in every rendered frame each layer is drawn exactly once, in index
\* order 0..N-1, and for layer i the time uniform is set to the frame's t and
\* then onBeforeFrame of layer i is called, both after the draw of layer i-1
\* and before the draw of layer i.
C8_LayersDrawnInOrder ==
    frameLog # <<>> =>
        LET n == Len(closure.layers)
            draws == SelectSeq(frameLog, LAMBDA c : c.e = "render")
            t == frameLog[1].t
            At(e, i) == {k \in 1..Len(frameLog) : frameLog[k].e = e /\ frameLog[k].i = i}
        IN /\ Len(draws) = n
           /\ \A k \in 1..n : draws[k].i = k - 1 /\ draws[k].layer = closure.layers[k]
           /\ \A i \in 0..(n - 1) :
                \E kt \in At("iTime", i), kr \in At("render", i) :
                    /\ kt < kr
                    /\ frameLog[kt].t = t
                    /\ i > 0 => \A kp \in At("render", i - 1) : kp < kt
                    /\ Cardinality(At("onBeforeFrame", i))
                         = (IF Layer(closure.layers[i + 1]).onBeforeFrame THEN 1 ELSE 0)
                    /\ \A kc \in At("onBeforeFrame", i) :
                          /\ kt < kc
                          /\ kc < kr
                          /\ frameLog[kc].layer = closure.layers[i + 1]
                          /\ frameLog[kc].t = t

\* C8 witness: a frame drew two layers after a positive time, one of them
\* with an onBeforeFrame callback.
C8_Witness ==
    /\ Draws(frameLog) = 2
    /\ frameLog[1].t > 0
    /\ \E k \in 1..Len(frameLog) : frameLog[k].e = "onBeforeFrame" /\ frameLog[k].i = 1

\* C9: while mounted, the materials are those of the current layers sequence:
\* as many as there are layers, slot i built from descriptor i.
C9_MaterialsFollowLayers ==
    status = "mounted" =>
        /\ Len(materialsRef) = Len(layers)
        /\ \A i \in 1..Len(materialsRef) : materialsRef[i].layer = layers[i]

\* a step in which resize() ran: the mount effect, or a ResizeObserver
\* callback (one that changes no variable at all is no step)
ResizeRan ==
    /\ status' = "mounted"
    /\ status = "rendered" \/ roReported' # roReported \/ resizeLog' # resizeLog

\* C10: after every resize() the ratio is min(devicePixelRatio,
\* capDevicePixelRatio), the drawing buffer is the container size times the
\* ratio (rounded down, a zero length counted as 1), and every material's
\* resolution uniform is (drawing-buffer width, drawing-buffer height, ratio).
C10_ResolutionIsBufferSize ==
    [][ResizeRan =>
        LET ratio == Min(OrOneRatio(host'.devicePixelRatio), capDevicePixelRatio')
        IN /\ renderer'.pixelRatio = ratio
           /\ renderer'.width = FloorScale(OrOne(host'.clientWidth), ratio)
           /\ renderer'.height = FloorScale(OrOne(host'.clientHeight), ratio)
           /\ \A i \in 1..Len(materialsRef') :
                materialsRef'[i].iResolution
                    = <<renderer'.width, renderer'.height, ratio>>]_vars

\* C11: a resize() that finds the container size and the device pixel ratio
\* unchanged makes no renderer call: the second of two identical resizes
\* issues neither setPixelRatio nor setSize.
C11_SameSizeResizeMakesNoCall == resizeLog.same => resizeLog.calls = <<>>

\* C12: when the host gives no rendering context at mount, no exception
\* leaves the component, no frame request is made, nothing is drawn, and
\* exactly one diagnostic is logged.
C12_NoContextIsInert ==
    (status = "failed" /\ ~renderer.created)
        => /\ thrown = "none"
           /\ rafQueue = <<>>
           /\ frameRef = 0
           /\ Draws(frameLog) = 0
           /\ diagnostics = 1

\* C13: when the mount fails after the renderer was created, everything
\* acquired so far is released: the renderer is disposed and its canvas
\* detached, the geometry and the built materials are disposed, and no
\* observer and no frame request is left.
C13_FailedMountReleasesAll ==
    (status = "failed" /\ renderer.created)
        => /\ renderer.disposed
           /\ ~renderer.attached
           /\ geometryDisposed
           /\ \A i \in 1..Len(materialsRef) : materialsRef[i].disposed
           /\ ~roConnected
           /\ ~ioConnected
           /\ rafQueue = <<>>

\* C16: for a layer that names a reserved uniform, the material holds the
\* layer's entry under that name, and the mount, every resize and every frame
\* complete without throwing.
C16_ReservedNameConflictNotFatal ==
    (status # "rendered" /\ renderer.created)
        => \A i \in 1..Len(closure.layers) :
              Layer(closure.layers[i]).uniforms \cap ReservedNames # {}
                  => /\ thrown = "none"
                     /\ status # "failed"
                     /\ i <= Len(materialsRef) =>
                            materialsRef[i].uniformNames =
                                ReservedNames \cup Layer(closure.layers[i]).uniforms

\* C14: running the cleanup a second time raises no fault and leaves the
\* state the first run left: the frame request cancelled, the observers
\* disconnected, geometry, materials and renderer released, the canvas
\* detached, the refs cleared.
C14_DisposeIdempotent ==
    [][(status = "disposed" /\ disposeLog' # disposeLog)
          => /\ thrown' = "none"
             /\ rafQueue' = rafQueue
             /\ frameRef' = frameRef
             /\ ioConnected' = ioConnected
             /\ roConnected' = roConnected
             /\ geometryDisposed' = geometryDisposed
             /\ renderer' = renderer
             /\ materialsRef' = materialsRef
             /\ surface' = surface]_vars

\* the cleanup has run twice after a mount that drew with two materials
C14_Witness ==
    /\ status = "disposed"
    /\ disposeLog # <<>>
    /\ \A k \in 1..Len(disposeLog) : disposeLog[k] # "removeChild"
    /\ Len(closure.layers) = 2
    /\ surface # <<>>
    /\ renderer.disposed
    /\ ~renderer.attached
    /\ thrown = "none"

\* C15: the unmount releases in reverse order of acquisition: every material
\* is disposed before the geometry, and the geometry before the renderer.
C15_ReleaseInReverseOrder ==
    status = "disposed"
        => \A i, j \in 1..Len(disposeLog) :
              /\ (disposeLog[i] = "material.dispose" /\ disposeLog[j] = "geometry.dispose")
                     => i < j
              /\ (disposeLog[i] = "geometry.dispose" /\ disposeLog[j] = "renderer.dispose")
                     => i < j

\* C17: a change of visibility, either way, leaves the renderer, the
\* geometry and the material sequence as they are: nothing is disposed,
\* detached or rebuilt, and no observer is disconnected.
C17_VisibilityKeepsResources ==
    [][isVisible' # isVisible
          => /\ renderer' = renderer
             /\ materialsRef' = materialsRef
             /\ geometryDisposed' = geometryDisposed
             /\ status' = status
             /\ disposeLog' = disposeLog
             /\ roConnected' = roConnected
             /\ ioConnected' = ioConnected]_vars

\* the container went out of view and came back, with materials built and the
\* renderer alive
C17_Witness ==
    /\ status = "mounted"
    /\ visResume
    /\ isVisible
    /\ Len(materialsRef) = 2
    /\ renderer.attached
    /\ ~renderer.disposed
    /\ ~geometryDisposed

\* C18: for the N layers given at mount there are exactly N materials, and
\* the material at position i has the shader source of descriptor i, the
\* uniforms of descriptor i together with the two shared uniforms, and the
\* blend mode of descriptor i, or normal blending when it names none.
C18_MaterialPerLayerInOrder ==
    (status \in {"mounted", "failed"} /\ renderer.created)
        => /\ Len(materialsRef) = Len(closure.layers)
           /\ \A i \in 1..Len(materialsRef) :
                 LET d == Layer(closure.layers[i]) IN
                 /\ materialsRef[i].fragmentShader = d.fragmentShader
                 /\ materialsRef[i].uniformNames = d.uniforms \cup {"iTime", "iResolution"}
                 /\ materialsRef[i].blending =
                        (IF d.blending = "undefined" THEN "NormalBlending" ELSE d.blending)

\* mounted with layers [A, B]: two materials, A's with the default blending
\* first, B's with additive blending second, and frames have been drawn since
C18_Witness ==
    /\ status = "mounted"
    /\ closure.layers = <<"A", "B">>
    /\ Len(materialsRef) = 2
    /\ materialsRef[1].fragmentShader = "fragA"
    /\ materialsRef[1].blending = "NormalBlending"
    /\ materialsRef[2].fragmentShader = "fragB"
    /\ materialsRef[2].blending = "AdditiveBlending"
    /\ Draws(frameLog) = 2

\* C19: startTime is never written after creation; all layers of one drawn
\* frame get the same t; and the t of a drawn frame is not less than the t of
\* the drawn frame before it (which the materials' iTime still holds),
\* whatever pause, visibility or resize events happened in between.
C19_TimeMonotonic ==
    [][/\ startTimeRef' = startTimeRef
       /\ \A k \in 1..Len(frameLog') : frameLog'[k].t = frameLog'[1].t
       /\ (FrameCallbackRan /\ frameLog' # <<>>)
             => /\ frameLog'[1].t >= 0
                /\ \A i \in 1..Len(materialsRef) :
                      /\ frameLog'[1].t >= materialsRef[i].iTime
                      /\ materialsRef'[i].iTime = frameLog'[1].t
       /\ (frameLog # <<>> /\ frameLog' # <<>>)
             => frameLog'[1].t >= frameLog[1].t]_vars

\* two frames were drawn with two layers, the latest at a time after the
\* start, and the container was resized before it
C19_Witness ==
    /\ status = "mounted"
    /\ nextHandle = 4
    /\ Draws(frameLog) = 2
    /\ frameLog[1].t > 0
    /\ materialsRef[1].iTime = frameLog[1].t
    /\ materialsRef[2].iTime = frameLog[1].t
    /\ resizeLog.same

\* C20: while the stack is mounted and paused has been false and the
\* container visible (or animateWhenOffscreen set) ever since the first
\* render, every frame callback the host runs is renderFrame, it draws every
\* layer, and it leaves a new request for renderFrame pending, held by
\* frameRef.
C20_EligibleFrameDrawsAndRearms ==
    [][(alwaysEligible /\ status = "mounted" /\ FrameCallbackRan)
          => /\ Head(rafQueue).cb = "renderFrame"
             /\ Draws(frameLog') = Len(closure.layers)
             /\ [k \in 1..Draws(frameLog') |->
                    SelectSeq(frameLog', LAMBDA c : c.e = "render")[k].layer]
                  = closure.layers
             /\ PendingRendersAfter = 1
             /\ rafQueue'[Len(rafQueue')] = [handle |-> frameRef', cb |-> "renderFrame"]]_vars

\* C20, progress: under FairSpec, a mounted stack whose frames have always
\* been eligible gets its pending request run, which draws and requests the
\* next frame, again and again until the bounded host has handed out its
\* last handle, unless the stack is disposed or stops being eligible first.
C20_FramesKeepComing ==
    (status = "mounted" /\ alwaysEligible)
        ~> (nextHandle > MaxHandle \/ status # "mounted" \/ ~alwaysEligible)

\* C20 as a whole: the step property and the progress property
C20_EligibleFramesForever == C20_EligibleFrameDrawsAndRearms /\ C20_FramesKeepComing

\* an always-eligible stack with two layers has drawn frame after frame up to
\* the last handle of the host
C20_Witness ==
    /\ status = "mounted"
    /\ alwaysEligible
    /\ nextHandle > MaxHandle
    /\ Draws(frameLog) = 2
    /\ Len(rafQueue) = 1
    /\ rafQueue[1] = [handle |-> frameRef, cb |-> "renderFrame"]

\* C21: at every moment at most one animation frame request is pending,
\* whether made by the render loop or by the paused effect; so none is pending
\* while a frame draws its layers, and the request for the next frame is the
\* last call of a frame, made after the draw of the last layer.
C21_OneRequestAfterLastDraw ==
    /\ Len(rafQueue) <= 1
    /\ frameLog # <<>> =>
          /\ frameLog[Len(frameLog)].e = "requestAnimationFrame"
          /\ \A k \in 1..(Len(frameLog) - 1) : frameLog[k].e # "requestAnimationFrame"

\* a frame drew two layers and requested the next frame; then paused went
\* TRUE and back to FALSE, and the paused effect ran and added no second
\* request
C21_Witness ==
    /\ status = "mounted"
    /\ Draws(frameLog) = 2
    /\ pauseResume
    /\ ~paused
    /\ ~effectPending
    /\ Len(rafQueue) = 1
    /\ rafQueue[1] = [handle |-> frameRef, cb |-> "renderFrame"]

\* the layers of the calls named e in a log, in order
LayersOf(log, e) ==
    LET sel == SelectSeq(log, LAMBDA c : c.e = e)
    IN [k \in 1..Len(sel) |-> sel[k].layer]

\* C22: the render loop reads only what was captured at mount.  Stated as
\* the two conditions that make the sequence of draw calls and onBeforeFrame
\* invocations a function of the mount-time props and the host events alone:
\* (1) a step that changes paused, isVisible, animateWhenOffscreen or layers,
\* or in which the paused effect runs, changes nothing the loop reads or
\* writes (captured values, materials, renderer, surface, the calls made so
\* far, the clock, the pending renderFrame requests); (2) what a
\* frame callback draws and which onBeforeFrame it invokes is determined by
\* the captured values and the materials, and the empty callback of the
\* paused effect draws and invokes nothing.
C22_LoopReadsCapturedValuesOnly ==
    [][/\ (\/ paused' # paused
           \/ isVisible' # isVisible
           \/ animateWhenOffscreen' # animateWhenOffscreen
           \/ layers' # layers
           \/ effectPending' # effectPending)
             => /\ closure' = closure
                /\ status' = status
                /\ materialsRef' = materialsRef
                /\ renderer' = renderer
                /\ surface' = surface
                /\ frameLog' = frameLog
                /\ now' = now
                /\ startTimeRef' = startTimeRef
                /\ SelectSeq(rafQueue', LAMBDA r : r.cb = "renderFrame")
                     = SelectSeq(rafQueue, LAMBDA r : r.cb = "renderFrame")
       /\ (FrameCallbackRan /\ Head(rafQueue).cb = "renderFrame")
             => IF ~closure.paused /\ (closure.isVisible \/ closure.animateWhenOffscreen)
                THEN /\ LayersOf(frameLog', "render") = closure.layers
                     /\ LayersOf(frameLog', "onBeforeFrame")
                          = SelectSeq(closure.layers, LAMBDA l : Layer(l).onBeforeFrame)
                     /\ \A k \in 1..Len(frameLog') :
                           frameLog'[k].t = now - startTimeRef
                ELSE frameLog' = <<>>
       /\ (FrameCallbackRan /\ Head(rafQueue).cb = "noop") => frameLog' = <<>>]_vars

\* paused, visibility and layers all differ from what was captured at mount,
\* the paused effect has run, and the frames drawn are those of the captured
\* two layers
C22_Witness ==
    /\ status = "mounted"
    /\ paused
    /\ ~effectPending
    /\ ~closure.paused
    /\ ~isVisible
    /\ ~animateWhenOffscreen
    /\ Len(closure.layers) = 2
    /\ layers = <<>>
    /\ nextHandle = 4
    /\ LayersOf(frameLog, "render") = closure.layers

\* C24: whatever the order of src and axis changes, load completions and
\* load errors, the hook returns the current src or the mirrored image of the
\* current src about the current axis, never the mirrored image of an earlier
\* src or axis, also after src became undefined (while the component is
\* mounted).
C24_ReturnsCurrentImage ==
    \/ ~mirror.mounted
    \/ MirrorResult(mirror) = [kind |-> "plain", src |-> mirror.src, axis |-> "none"]
    \/ MirrorResult(mirror) = [kind |-> "mirrored", src |-> mirror.src, axis |-> mirror.axis]

====
